---------------------------- MODULE Spec2Model ----------------------------
(***************************************************************************)
(* Model of the options strategy selector (utils/options_analyzer.py) and  *)
(* of the payoff loop of the options page (pages/options_strategy.py).     *)
(*                                                                         *)
(* Units.  Prices and strikes are integers in cents.  Money amounts        *)
(* (max_profit, max_loss) are integers in cents, which is what             *)
(* round(x, 2) produces.  Volatility is an integer in thousandths          *)
(* (0.2 is 200).  A strike target such as current_price * 1.02 is kept     *)
(* exact as current_price * 102 in hundredths of a cent.  Prices of the    *)
(* payoff grid are exact in units of 1 / GridScale cent.                   *)
(***************************************************************************)
EXTENDS Integers, Sequences, FiniteSets

VARIABLES
    stock,        \* what the vendor serves: price history and option listings
    now,          \* time of day of the invocation (0 = midnight, 1 = later)
    verdict,      \* fused verdict and volatility regime handed to the selector
    pc,           \* position of analyze_options_strategy
    pending,      \* items of options.items() not yet iterated
    strategies,   \* the local list 'strategies'
    dropped,      \* log of the expirations the loop left out, with the reason
    result,       \* the dict analyze_options_strategy returns
    page,         \* payoff loop: the strategy and current price being charted
    payoffs,      \* payoff loop: the list 'payoffs'
    df,           \* price factors: the frame fetch_stock_data returns
    factors,      \* price factors: the dict analyze_price_factors builds
    news,         \* sentiment: the articles and what the scorer does with each
    sentiment,    \* sentiment: the locals, then the dict returned
    prediction,   \* predict_price_range: the range returned for the frame
    market_data,  \* confidence: the argument of get_strategy_confidence_score
    confidence    \* confidence: the score returned

vars == <<stock, now, verdict, pc, pending, strategies, dropped, result, page, payoffs,
          df, factors, news, sentiment, prediction, market_data, confidence>>

\* Python's None where a record is expected
None == [none |-> TRUE]

\* the variables of the sentiment, prediction and confidence computations
others == <<news, sentiment, prediction, market_data, confidence>>

\* ... before any of them has been called
OthersIdle ==
    /\ news = None
    /\ sentiment = None
    /\ prediction = None
    /\ market_data = None
    /\ confidence = None

IsNone(x) == "none" \in DOMAIN x

\* Python's None where a strike is expected
NoStrike == -1

Abs(x) == IF x < 0 THEN -x ELSE x

Min(a, b) == IF a <= b THEN a ELSE b

Max(a, b) == IF a >= b THEN a ELSE b

-----------------------------------------------------------------------------
(* Bounds of the model *)

\* number of expiration dates the vendor lists
MaxListed == 2

-----------------------------------------------------------------------------
(* Program constants *)

\* stock.options[:4]
MaxExpirations == 4

\* np.linspace(..., 100)
GridPoints == 100

\* volume > 100
MinVolume == 100

\* openInterest > 50
MinOpenInterest == 50

\* volatility > 0.2, in thousandths
HighVolThreshold == 200

-----------------------------------------------------------------------------
(* Option rows and the liquidity filter *)

Row(s, v, l, o) == [strike |-> s, volume |-> v, lastPrice |-> l, openInterest |-> o]

\* a row that passes the filter, and rows that fail one criterion each
Liq(s) == Row(s, 101, 1, 51)

NoVol(s) == Row(s, 100, 1, 51)

NoPrice(s) == Row(s, 500, 0, 51)

NoOI(s) == Row(s, 500, 1, 50)

IsLiquid(row) ==
    /\ row.volume > MinVolume
    /\ row.lastPrice > 0
    /\ row.openInterest > MinOpenInterest

FilterRows(rows) == SelectSeq(rows, IsLiquid)

-----------------------------------------------------------------------------
(* get_options_chain *)

Take(seq, n) == SubSeq(seq, 1, Min(n, Len(seq)))

\* the loop body of get_options_chain for one date: the item it stores, or
\* None when the fetch raises or a filtered side is empty
ChainItem(listing) ==
    IF ~listing.fetchOk THEN None
    ELSE LET calls == FilterRows(listing.calls)
             puts == FilterRows(listing.puts)
         IN  IF calls # <<>> /\ puts # <<>>
             THEN [date |-> listing.date, calls |-> calls, puts |-> puts]
             ELSE None

RECURSIVE ChainItems(_)
ChainItems(listings) ==
    IF listings = <<>> THEN <<>>
    ELSE LET item == ChainItem(Head(listings))
             rest == ChainItems(Tail(listings))
         IN  IF IsNone(item) THEN rest ELSE <<item>> \o rest

\* the dict returned, as the sequence of its items in insertion order;
\* the empty sequence is the empty dict
get_options_chain(stk) ==
    IF stk.listed = <<>> THEN <<>>
    ELSE ChainItems(Take(stk.listed, MaxExpirations))

-----------------------------------------------------------------------------
(* find_nearest_strike *)

\* index of the first minimum, as argmin returns it
ArgMin(dist) ==
    CHOOSE i \in 1..Len(dist) :
        \A j \in 1..Len(dist) :
            /\ dist[i] <= dist[j]
            /\ (dist[j] = dist[i] => i <= j)

\* target in hundredths of a cent
find_nearest_strike(options_df, target) ==
    LET valid_strikes == FilterRows(options_df)
    IN  IF valid_strikes = <<>> THEN NoStrike
        ELSE LET dist == [i \in 1..Len(valid_strikes) |->
                             Abs(valid_strikes[i].strike * 100 - target)]
             IN  valid_strikes[ArgMin(dist)].strike

\* truth value of a strike inside all([...]): None and 0.0 are false
Truthy(x) == x # NoStrike /\ x # 0

-----------------------------------------------------------------------------
(* round(x, 2) *)

\* n / d cents rounded to a whole cent.  Where n / d lies exactly half way
\* the result depends on the binary representation of the float product,
\* so both neighbours are outcomes; 'up' selects one.
Round2(n, d, up) ==
    LET q == n \div d
        r == n - q * d
    IN  IF 2 * r < d THEN q
        ELSE IF 2 * r > d THEN q + 1
        ELSE IF up THEN q + 1 ELSE q

IsTie(n, d) == 2 * (n % d) = d

-----------------------------------------------------------------------------
(* validate_strike_prices *)

HasLegs(strategy, legs) == \A leg \in legs : leg \in DOMAIN strategy.setup

\* validate_strike_prices with the strict orderings relaxed to <=
validate_weak_order(strategy, current_price) ==
    IF strategy.type = "Iron Condor"
    THEN /\ HasLegs(strategy, {"buy_put", "sell_put", "sell_call", "buy_call"})
         /\ strategy.setup.buy_put.strike <= strategy.setup.sell_put.strike
         /\ strategy.setup.sell_put.strike <= current_price
         /\ current_price <= strategy.setup.sell_call.strike
         /\ strategy.setup.sell_call.strike <= strategy.setup.buy_call.strike
    ELSE /\ HasLegs(strategy, {"buy_call", "sell_call"})
         /\ current_price # 0
         /\ strategy.setup.buy_call.strike <= strategy.setup.sell_call.strike
         /\ IF current_price > 0
            THEN 10 * Abs(strategy.setup.buy_call.strike - current_price) < current_price
            ELSE TRUE

validate_strike_prices(strategy, current_price) ==
    IF strategy.type = "Iron Condor"
    THEN /\ HasLegs(strategy, {"buy_put", "sell_put", "sell_call", "buy_call"})
         /\ strategy.setup.buy_put.strike < strategy.setup.sell_put.strike
         /\ strategy.setup.sell_put.strike < current_price
         /\ current_price < strategy.setup.sell_call.strike
         /\ strategy.setup.sell_call.strike < strategy.setup.buy_call.strike
    ELSE \* a missing key or a zero price raises, and the except returns False
         /\ HasLegs(strategy, {"buy_call", "sell_call"})
         /\ current_price # 0
         /\ strategy.setup.buy_call.strike < strategy.setup.sell_call.strike
         /\ IF current_price > 0
            THEN 10 * Abs(strategy.setup.buy_call.strike - current_price) < current_price
            ELSE TRUE

-----------------------------------------------------------------------------
(* analyze_options_strategy: the body of the loop over options.items() *)

\* (expiry - datetime.now()).days: expiry is the midnight of the listed
\* date, counted in days from today's midnight; a time of day past
\* midnight makes timedelta.days one less
DaysToExpiry(date, tod) == date.day - (IF tod > 0 THEN 1 ELSE 0)

\* IronCondorRisk with the put spread taken the wrong way round
IronCondorRiskPutSign(sell_call, buy_call, sell_put, buy_put, upP, upL) ==
    LET call_spread == buy_call - sell_call
        put_spread == buy_put - sell_put
    IN  [max_profit |-> Round2(Min(call_spread, put_spread) * 15, 100, upP),
         max_loss |-> Round2(Max(call_spread, put_spread) * 85, 100, upL),
         probability_of_profit |-> "65-70%"]

IronCondorRisk(sell_call, buy_call, sell_put, buy_put, upP, upL) ==
    LET call_spread == buy_call - sell_call
        put_spread == sell_put - buy_put
    IN  [max_profit |-> Round2(Min(call_spread, put_spread) * 15, 100, upP),
         max_loss |-> Round2(Max(call_spread, put_spread) * 85, 100, upL),
         probability_of_profit |-> "65-70%"]

\* BullCallRisk with the split of the strike gap changed to 80/20
BullCallRisk8020(buy_call, sell_call, upP, upL) ==
    LET spread == sell_call - buy_call
    IN  [max_profit |-> Round2(spread * 80, 100, upP),
         max_loss |-> Round2(spread * 20, 100, upL),
         probability_of_profit |-> "55-60%"]

BullCallRisk(buy_call, sell_call, upP, upL) ==
    LET spread == sell_call - buy_call
    IN  [max_profit |-> Round2(spread * 60, 100, upP),
         max_loss |-> Round2(spread * 40, 100, upL),
         probability_of_profit |-> "55-60%"]

\* the high volatility branch: the strategy built, or None on 'continue'
IronCondor(item, current_price, days, upP, upL) ==
    LET sell_call_strike == find_nearest_strike(item.calls, current_price * 102)
        buy_call_strike == find_nearest_strike(item.calls, current_price * 104)
        sell_put_strike == find_nearest_strike(item.puts, current_price * 98)
        buy_put_strike == find_nearest_strike(item.puts, current_price * 96)
    IN  IF ~(/\ Truthy(sell_call_strike) /\ Truthy(buy_call_strike)
             /\ Truthy(sell_put_strike) /\ Truthy(buy_put_strike))
        THEN None
        ELSE [expiry |-> item.date,
              days_to_expiry |-> days,
              type |-> "Iron Condor",
              description |-> "High volatility strategy to collect premium",
              setup |-> [sell_call |-> [strike |-> sell_call_strike],
                         buy_call |-> [strike |-> buy_call_strike],
                         sell_put |-> [strike |-> sell_put_strike],
                         buy_put |-> [strike |-> buy_put_strike]],
              risk_reward |-> IronCondorRisk(sell_call_strike, buy_call_strike,
                                             sell_put_strike, buy_put_strike, upP, upL)]

\* the low volatility branch
BullCallSpread(item, current_price, days, upP, upL) ==
    LET buy_call_strike == find_nearest_strike(item.calls, current_price * 99)
        sell_call_strike == find_nearest_strike(item.calls, current_price * 102)
    IN  IF ~(Truthy(buy_call_strike) /\ Truthy(sell_call_strike))
        THEN None
        ELSE [expiry |-> item.date,
              days_to_expiry |-> days,
              type |-> "Bull Call Spread",
              description |-> "Bullish strategy for low volatility environment",
              setup |-> [buy_call |-> [strike |-> buy_call_strike],
                         sell_call |-> [strike |-> sell_call_strike]],
              risk_reward |-> BullCallRisk(buy_call_strike, sell_call_strike, upP, upL)]

\* the strategy the loop body builds for one item before validating it
Candidate(item, current_price, volatility, tod, upP, upL) ==
    IF volatility > HighVolThreshold
    THEN IronCondor(item, current_price, DaysToExpiry(item.date, tod), upP, upL)
    ELSE BullCallSpread(item, current_price, DaysToExpiry(item.date, tod), upP, upL)

\* what one pass of the loop body does with its item: "raise" when
\* strptime rejects the date, "continue" when a strike is not found,
\* "invalid" when validation fails, "append" otherwise
Outcome(item, current_price, volatility, tod, upP, upL) ==
    IF ~item.date.wellFormed THEN [kind |-> "raise"]
    ELSE LET strategy == Candidate(item, current_price, volatility, tod, upP, upL)
         IN  IF IsNone(strategy) THEN [kind |-> "continue"]
             ELSE IF validate_strike_prices(strategy, current_price)
                  THEN [kind |-> "append", strategy |-> strategy]
                  ELSE [kind |-> "invalid", strategy |-> strategy]

\* the items the loop still visits after a pass that ended in the except
\* block of the loop body, which continues with the next item
\* AfterError leaving the loop instead of continuing it
AbortOnError(items) == <<>>

AfterError(items) == Tail(items)

-----------------------------------------------------------------------------
(* sorted(strategies, key=days_to_expiry): a stable sort *)

RECURSIVE InsertByDays(_, _)
InsertByDays(sorted, s) ==
    IF sorted = <<>> THEN <<s>>
    ELSE IF Head(sorted).days_to_expiry <= s.days_to_expiry
         THEN <<Head(sorted)>> \o InsertByDays(Tail(sorted), s)
         ELSE <<s>> \o sorted

\* the list left in the order of the loop
KeepLoopOrder(seq) == seq

RECURSIVE SortByDays(_)
SortByDays(seq) ==
    IF seq = <<>> THEN <<>>
    ELSE InsertByDays(SortByDays(SubSeq(seq, 1, Len(seq) - 1)), seq[Len(seq)])

-----------------------------------------------------------------------------
(* What the vendor can serve *)

Date(day, wellFormed) == [day |-> day, wellFormed |-> wellFormed]

Listing(date, fetchOk, calls, puts) ==
    [date |-> date, fetchOk |-> fetchOk, calls |-> calls, puts |-> puts]

DenseCalls == <<Liq(9800), Liq(9900), NoOI(10150), Liq(10200), Liq(10400)>>

DensePuts == <<Liq(9600), Liq(9800), NoPrice(9850), Liq(10000)>>

\* the listings one expiration date can have
ListingPool(day) ==
    { Listing(Date(day, TRUE), TRUE, DenseCalls, DensePuts),
      \* strikes half a dollar and a cent off the round ones
      Listing(Date(day, TRUE), TRUE,
              <<Liq(9899), Liq(10200), Liq(10350)>>, <<Liq(9650), Liq(9800)>>),
      \* few liquid strikes, far from the price
      Listing(Date(day, TRUE), TRUE,
              <<Liq(9100), Liq(11100)>>, <<Liq(9600), Liq(9800)>>),
      \* one liquid strike on each side
      Listing(Date(day, TRUE), TRUE, <<Liq(10000)>>, <<Liq(10000)>>),
      \* no liquid call
      Listing(Date(day, TRUE), TRUE,
              <<NoVol(9900), NoPrice(10200), NoOI(10400)>>, DensePuts),
      \* option_chain(date) raises
      Listing(Date(day, TRUE), FALSE, <<>>, <<>>),
      \* a date strptime rejects
      Listing(Date(day, FALSE), TRUE, DenseCalls, DensePuts) }

\* stock.options lists weekly expirations in ascending order
ListedPool ==
    UNION { { listed \in [1..n -> UNION { ListingPool(7 * i) : i \in 1..n }] :
                \A i \in 1..n : listed[i] \in ListingPool(7 * i) } :
            n \in 0..MaxListed }

\* stock.history(period="1mo"): it raises, it is empty, or it gives the
\* last close and the annualised volatility of the closes
HistOk ==
    { [status |-> "ok", close |-> 10000, volatility |-> 150],
      [status |-> "ok", close |-> 10000, volatility |-> 250],
      [status |-> "ok", close |-> 10050, volatility |-> 150] }

HistFailed == { [status |-> "raise"], [status |-> "empty"] }

\* the listings are not fetched when the history failed
StockPool ==
    { [hist |-> h, listed |-> l] : h \in HistOk, l \in ListedPool } \cup
    { [hist |-> h, listed |-> <<>>] : h \in HistFailed }

Labels == {"Strong Bullish", "Moderately Bullish", "Neutral",
           "Moderately Bearish", "Strong Bearish"}

Regimes == {"Low Volatility", "Normal", "High Volatility"}

-----------------------------------------------------------------------------
(* The payoff loop of the options page *)

\* prices of the grid and payoffs are in units of 1 / GridScale cent, in
\* which every point of np.linspace(0.9 p, 1.1 p, GridPoints) is an integer
GridScale == 10 * (GridPoints - 1)

\* price_range[i], i = 0 .. GridPoints - 1
GridPrice(price, i) == price * (9 * (GridPoints - 1) + 2 * i)

\* Payoff with the ramp of the Bear Put Spread measured from the price up,
\* as in the Bull Call Spread
PayoffBearRamp(strategy, price) ==
    IF strategy.type = "Bear Put Spread"
    THEN LET buy_strike == strategy.setup.buy_put.strike * GridScale
             sell_strike == strategy.setup.sell_put.strike * GridScale
             max_profit == strategy.risk_reward.max_profit * GridScale
             max_loss == strategy.risk_reward.max_loss * GridScale
         IN  IF price >= buy_strike THEN -max_loss
             ELSE IF price >= sell_strike THEN -max_loss + (price - sell_strike)
             ELSE max_profit
    ELSE LET buy_strike == strategy.setup.buy_call.strike * GridScale
             sell_strike == strategy.setup.sell_call.strike * GridScale
             max_profit == strategy.risk_reward.max_profit * GridScale
             max_loss == strategy.risk_reward.max_loss * GridScale
         IN  IF price <= buy_strike THEN -max_loss
             ELSE IF price <= sell_strike THEN -max_loss + (price - buy_strike)
             ELSE max_profit

\* the body of 'for price in price_range', lines 140-165
Payoff(strategy, price) ==
    IF strategy.type = "Bear Put Spread"
    THEN LET buy_strike == strategy.setup.buy_put.strike * GridScale
             sell_strike == strategy.setup.sell_put.strike * GridScale
             max_profit == strategy.risk_reward.max_profit * GridScale
             max_loss == strategy.risk_reward.max_loss * GridScale
         IN  IF price >= buy_strike THEN -max_loss
             ELSE IF price >= sell_strike THEN -max_loss + (buy_strike - price)
             ELSE max_profit
    ELSE LET buy_strike == strategy.setup.buy_call.strike * GridScale
             sell_strike == strategy.setup.sell_call.strike * GridScale
             max_profit == strategy.risk_reward.max_profit * GridScale
             max_loss == strategy.risk_reward.max_loss * GridScale
         IN  IF price <= buy_strike THEN -max_loss
             ELSE IF price <= sell_strike THEN -max_loss + (price - buy_strike)
             ELSE max_profit

-----------------------------------------------------------------------------
(* analyze_options_strategy *)

Init ==
    /\ stock \in StockPool
    /\ now \in {0, 1}
    /\ verdict \in [label : Labels, regime : Regimes]
    /\ pc = "start"
    /\ pending = <<>>
    /\ strategies = <<>>
    /\ dropped = <<>>
    /\ result = None
    /\ page = None
    /\ payoffs = <<>>
    /\ df = None
    /\ factors = None
    /\ OthersIdle

current_price == stock.hist.close

volatility == stock.hist.volatility

\* lines 97-118 and the outer except
Start ==
    /\ pc = "start"
    /\ UNCHANGED <<stock, now, verdict, strategies, dropped, page, payoffs, df, factors, others>>
    /\ IF stock.hist.status = "raise"
       THEN /\ result' = [error |-> "exception", current_price |-> 0,
                          volatility |-> 0, strategies |-> <<>>]
            /\ pc' = "done"
            /\ pending' = <<>>
       ELSE IF stock.hist.status = "empty"
       THEN /\ result' = [error |-> "No historical data available"]
            /\ pc' = "done"
            /\ pending' = <<>>
       ELSE LET options == get_options_chain(stock)
            IN  IF options = <<>>
                THEN /\ result' = [error |-> "No options data available",
                                   current_price |-> current_price,
                                   volatility |-> volatility,
                                   strategies |-> <<>>]
                     /\ pc' = "done"
                     /\ pending' = <<>>
                ELSE /\ pending' = options
                     /\ pc' = "loop"
                     /\ result' = result

\* one pass of the loop of lines 121-195
Iterate ==
    /\ pc = "loop"
    /\ pending # <<>>
    /\ \E upP, upL \in BOOLEAN :
          LET item == Head(pending)
              out == Outcome(item, current_price, volatility, now, upP, upL)
          IN  IF out.kind = "append"
              THEN /\ strategies' = Append(strategies, out.strategy)
                   /\ dropped' = dropped
                   /\ pending' = Tail(pending)
              ELSE /\ strategies' = strategies
                   /\ dropped' = Append(dropped, [expiry |-> item.date, why |-> out.kind])
                   /\ pending' = IF out.kind = "raise"
                                 THEN AfterError(pending)
                                 ELSE Tail(pending)
    /\ UNCHANGED <<stock, now, verdict, pc, result, page, payoffs, df, factors, others>>

\* the dict of lines 206-210 returned without the check of line 197
ResultUnchecked(collected) ==
    [current_price |-> current_price,
     volatility |-> volatility,
     strategies |-> SortByDays(collected)]

\* lines 197-210: the dict returned after the loop
FinalResult(collected) ==
    IF collected = <<>>
    THEN [error |-> "No valid strategies could be generated",
          current_price |-> current_price,
          volatility |-> volatility,
          strategies |-> <<>>]
    ELSE [current_price |-> current_price,
          volatility |-> volatility,
          strategies |-> SortByDays(collected)]

\* lines 197-210
Finish ==
    /\ pc = "loop"
    /\ pending = <<>>
    /\ result' = FinalResult(strategies)
    /\ pc' = "done"
    /\ UNCHANGED <<stock, now, verdict, pending, strategies, dropped, page, payoffs, df, factors, others>>

Next == Start \/ Iterate \/ Finish

Spec == Init /\ [][Next]_vars

-----------------------------------------------------------------------------
(* The payoff loop applied to the strategies the page can be given *)

IsBearish(label) == label \in {"Moderately Bearish", "Strong Bearish"}

IsStrong(label) == label \in {"Strong Bullish", "Strong Bearish"}

\* the Bear Put Spread of the design, which the page charts: strikes at
\* price * multiplier and price * (multiplier - width), an 80/20 split of
\* the strike gap
BearPutSpread(date, price, label, regime) ==
    LET multiplier == IF IsStrong(label) THEN 102 ELSE 101
        width == IF regime = "High Volatility" THEN 5 ELSE 3
        buy_put_strike == (price * multiplier) \div 100
        sell_put_strike == (price * (multiplier - width)) \div 100
        spread == buy_put_strike - sell_put_strike
    IN  [expiry |-> date,
         days_to_expiry |-> date.day,
         type |-> "Bear Put Spread",
         description |-> "Bearish strategy",
         setup |-> [buy_put |-> [strike |-> buy_put_strike],
                    sell_put |-> [strike |-> sell_put_strike]],
         risk_reward |-> [max_profit |-> (spread * 80) \div 100,
                          max_loss |-> (spread * 20) \div 100,
                          probability_of_profit |-> "50-60%"]]

\* an analysis the page charts: a strategy and the current price it was
\* built for
Charted(strategy, price) == [strategy |-> strategy, current_price |-> price, idx |-> 0]

\* the strategies analyze_options_strategy returns for one listed date
ReturnedPool ==
    { Charted(Outcome(item, h.close, h.volatility, 0, upP, upL).strategy, h.close) :
        <<item, h, upP, upL>> \in
          { t \in { ChainItem(l) : l \in ListingPool(7) } \X HistOk \X BOOLEAN \X BOOLEAN :
              /\ ~IsNone(t[1])
              /\ Outcome(t[1], t[2].close, t[2].volatility, 0, t[3], t[4]).kind = "append" } }

BearPutPool ==
    { Charted(BearPutSpread(Date(7, TRUE), 10000, label, regime), 10000) :
        label \in { l \in Labels : IsBearish(l) },
        regime \in {"Normal", "High Volatility"} }

InitPayoff ==
    /\ stock = [hist |-> [status |-> "empty"], listed |-> <<>>]
    /\ now = 0
    /\ verdict = [label |-> "Neutral", regime |-> "Normal"]
    /\ pc = "page"
    /\ pending = <<>>
    /\ strategies = <<>>
    /\ dropped = <<>>
    /\ result = None
    /\ page \in ReturnedPool \cup BearPutPool
    /\ payoffs = <<>>
    /\ df = None
    /\ factors = None
    /\ OthersIdle

\* one pass of 'for price in price_range'
PayoffStep ==
    /\ pc = "page"
    /\ page.idx < GridPoints
    /\ payoffs' = Append(payoffs,
                         Payoff(page.strategy, GridPrice(page.current_price, page.idx)))
    /\ page' = [page EXCEPT !.idx = @ + 1]
    /\ UNCHANGED <<stock, now, verdict, pc, pending, strategies, dropped, result,
                   df, factors, others>>

\* the chart is drawn from the finished list
PlotChart ==
    /\ pc = "page"
    /\ page.idx = GridPoints
    /\ pc' = "charted"
    /\ UNCHANGED <<stock, now, verdict, pending, strategies, dropped, result, page, payoffs, df, factors, others>>

NextPayoff == PayoffStep \/ PlotChart

SpecPayoff == InitPayoff /\ [][NextPayoff]_vars

-----------------------------------------------------------------------------
(* Properties of analyze_options_strategy *)

Returned == IF "strategies" \in DOMAIN result THEN result.strategies ELSE <<>>

ReturnedSet == { Returned[i] : i \in 1..Len(Returned) }

HistIsOk == stock.hist.status = "ok"

\* C1: every strategy of the returned list satisfies the strike ordering of
\* its variant against the current price of the call (Iron Condor:
\* buy_put < sell_put < price < sell_call < buy_call; Bull Call Spread:
\* buy_call < sell_call), and no expiration whose candidate failed
\* validation has a strategy in the list.
C1_StrikeOrdering ==
    pc = "done" =>
        /\ \A s \in ReturnedSet :
              /\ s.type \in {"Iron Condor", "Bull Call Spread"}
              /\ s.type = "Iron Condor" =>
                    /\ s.setup.buy_put.strike < s.setup.sell_put.strike
                    /\ s.setup.sell_put.strike < current_price
                    /\ current_price < s.setup.sell_call.strike
                    /\ s.setup.sell_call.strike < s.setup.buy_call.strike
              /\ s.type = "Bull Call Spread" =>
                    s.setup.buy_call.strike < s.setup.sell_call.strike
        /\ \A i \in 1..Len(dropped) :
              dropped[i].why = "invalid" =>
                  \A s \in ReturnedSet : s.expiry # dropped[i].expiry

\* a finished call that dropped one candidate as invalid and returned an
\* Iron Condor for another expiration
C1_Witness ==
    /\ pc = "done"
    /\ \E s \in ReturnedSet : s.type = "Iron Condor"
    /\ \E i \in 1..Len(dropped) : dropped[i].why = "invalid"

\* C2: a failure in the pass of one expiration drops only that expiration:
\* every expiration of the batch whose own pass builds a valid strategy has
\* that strategy in the returned list, whatever happened to the others.
C2_PartialSuccess ==
    (pc = "done" /\ HistIsOk) =>
        \A k \in 1..Len(get_options_chain(stock)) :
            LET item == get_options_chain(stock)[k]
                outs == { Outcome(item, current_price, volatility, now, upP, upL) :
                            upP \in BOOLEAN, upL \in BOOLEAN }
            IN  (\E out \in outs : out.kind = "append") =>
                    \E s \in ReturnedSet :
                        /\ s.expiry = item.date
                        /\ \E out \in outs : out.kind = "append" /\ out.strategy = s

\* an earlier expiration raised and a later one is returned
C2_Witness ==
    /\ pc = "done"
    /\ \E i \in 1..Len(dropped) :
          /\ dropped[i].why = "raise"
          /\ \E s \in ReturnedSet : s.expiry.day > dropped[i].expiry.day

\* the expirations whose pass reaches the construction of a strategy
Processed ==
    IF HistIsOk
    THEN { get_options_chain(stock)[k].date : k \in 1..Len(get_options_chain(stock)) }
    ELSE {}

\* C3: the variant follows the fused label: for every expiration a label
\* containing "Bearish" yields a Bear Put Spread and any other label a Bull
\* Call Spread.
C3_VariantFromLabel ==
    pc = "done" =>
        \A s \in ReturnedSet :
            IF IsBearish(verdict.label)
            THEN s.type = "Bear Put Spread"
            ELSE s.type = "Bull Call Spread"

\* C4: for a Bearish verdict the Bear Put Spread with buy_put = price * m
\* (m = 1.02 if Strong, else 1.01) and sell_put = price * (m - w) (w = 0.05
\* in High Volatility, else 0.03) satisfies sell_put < buy_put < price * 1.05
\* and is returned for the expiration rather than dropped.
C4_BearPutReturned ==
    (pc = "done" /\ IsBearish(verdict.label)) =>
        \A date \in Processed :
            date.wellFormed =>
                \E s \in ReturnedSet :
                    /\ s.expiry = date
                    /\ s.type = "Bear Put Spread"
                    /\ LET m == IF IsStrong(verdict.label) THEN 102 ELSE 101
                           w == IF verdict.regime = "High Volatility" THEN 5 ELSE 3
                       IN  /\ s.setup.buy_put.strike * 100 = current_price * m
                           /\ s.setup.sell_put.strike * 100 = current_price * (m - w)
                           /\ s.setup.sell_put.strike < s.setup.buy_put.strike
                           /\ s.setup.buy_put.strike * 100 < current_price * 105

\* the calls of the chain item of an expiration
CallsOf(date) ==
    LET k == CHOOSE k \in 1..Len(get_options_chain(stock)) :
                 get_options_chain(stock)[k].date = date
    IN  get_options_chain(stock)[k].calls

\* C5: for a verdict that is not Bearish every returned strategy is a Bull
\* Call Spread whose buy_call is the listed strike at price * m (m = 0.98 if
\* Strong, else 0.99) and whose sell_call is the listed strike at
\* price * (m + w) (w = 0.05 in High Volatility, else 0.03), with
\* buy_call < sell_call.
C5_BullCallStrikes ==
    (pc = "done" /\ ~IsBearish(verdict.label)) =>
        \A s \in ReturnedSet :
            /\ s.type = "Bull Call Spread"
            /\ LET m == IF IsStrong(verdict.label) THEN 98 ELSE 99
                   w == IF verdict.regime = "High Volatility" THEN 5 ELSE 3
               IN  /\ s.setup.buy_call.strike =
                          find_nearest_strike(CallsOf(s.expiry), current_price * m)
                   /\ s.setup.sell_call.strike =
                          find_nearest_strike(CallsOf(s.expiry), current_price * (m + w))
                   /\ s.setup.buy_call.strike < s.setup.sell_call.strike

TwoLeg(s) == s.type \in {"Bull Call Spread", "Bear Put Spread"}

\* distance between the two strikes of a two-leg spread
StrikeGap(s) ==
    IF s.type = "Bear Put Spread"
    THEN s.setup.buy_put.strike - s.setup.sell_put.strike
    ELSE s.setup.sell_call.strike - s.setup.buy_call.strike

\* C6 as stated: for every returned two-leg spread max_profit is the strike
\* gap * 0.8 and max_loss the strike gap * 0.2, so they add up to the gap.
C6_Split8020 ==
    pc = "done" =>
        \A s \in ReturnedSet :
            TwoLeg(s) =>
                /\ s.risk_reward.max_profit * 100 = StrikeGap(s) * 80
                /\ s.risk_reward.max_loss * 100 = StrikeGap(s) * 20
                /\ s.risk_reward.max_profit + s.risk_reward.max_loss = StrikeGap(s)

\* C6 amended: for every returned two-leg spread max_profit is the strike
\* gap * 0.6 and max_loss the strike gap * 0.4, each rounded to the nearest
\* cent, and they add up to the gap.
C6_Split6040 ==
    pc = "done" =>
        \A s \in ReturnedSet :
            TwoLeg(s) =>
                /\ Abs(s.risk_reward.max_profit * 100 - StrikeGap(s) * 60) <= 50
                /\ Abs(s.risk_reward.max_loss * 100 - StrikeGap(s) * 40) <= 50
                /\ s.risk_reward.max_profit + s.risk_reward.max_loss = StrikeGap(s)

\* a returned Bull Call Spread whose gap * 0.6 is not a whole number of cents
C6_Witness ==
    /\ pc = "done"
    /\ \E s \in ReturnedSet :
          /\ s.type = "Bull Call Spread"
          /\ (StrikeGap(s) * 60) % 100 # 0

CallSpread(s) == s.setup.buy_call.strike - s.setup.sell_call.strike

PutSpread(s) == s.setup.sell_put.strike - s.setup.buy_put.strike

\* C7 as stated: for every returned Iron Condor max_profit is
\* min(call_spread, put_spread) * 0.15 and max_loss is
\* max(call_spread, put_spread) * 0.85, and both are >= 0.
C7_CondorRiskExact ==
    pc = "done" =>
        \A s \in ReturnedSet :
            s.type = "Iron Condor" =>
                /\ s.risk_reward.max_profit * 100 = Min(CallSpread(s), PutSpread(s)) * 15
                /\ s.risk_reward.max_loss * 100 = Max(CallSpread(s), PutSpread(s)) * 85
                /\ s.risk_reward.max_profit >= 0
                /\ s.risk_reward.max_loss >= 0

\* C7 amended: for every returned Iron Condor max_profit is
\* min(call_spread, put_spread) * 0.15 and max_loss is
\* max(call_spread, put_spread) * 0.85, each rounded to the nearest cent,
\* and both are >= 0.
C7_CondorRiskRounded ==
    pc = "done" =>
        \A s \in ReturnedSet :
            s.type = "Iron Condor" =>
                /\ Abs(s.risk_reward.max_profit * 100
                       - Min(CallSpread(s), PutSpread(s)) * 15) <= 50
                /\ Abs(s.risk_reward.max_loss * 100
                       - Max(CallSpread(s), PutSpread(s)) * 85) <= 50
                /\ s.risk_reward.max_profit >= 0
                /\ s.risk_reward.max_loss >= 0

\* a returned Iron Condor whose max_profit was rounded from a value half way
\* between two cents
C7_Witness ==
    /\ pc = "done"
    /\ \E s \in ReturnedSet :
          /\ s.type = "Iron Condor"
          /\ IsTie(Min(CallSpread(s), PutSpread(s)) * 15, 100)

-----------------------------------------------------------------------------
(* Properties of the payoff loop *)

Charting == pc \in {"page", "charted"}

\* the price at which payoffs[i] was computed
PriceAt(i) == GridPrice(page.current_price, i - 1)

\* C8: at every price of the grid the payoff of a two-leg spread follows
\* the piecewise definition.  Bull Call Spread: -max_loss below buy_strike,
\* -max_loss + (price - buy_strike) between buy_strike and sell_strike,
\* max_profit above sell_strike.  Bear Put Spread: -max_loss above
\* buy_strike, -max_loss + (buy_strike - price) between sell_strike and
\* buy_strike, max_profit below sell_strike.
C8_PayoffPiecewise ==
    (Charting /\ TwoLeg(page.strategy)) =>
        \A i \in 1..Len(payoffs) :
            LET s == page.strategy
                price == PriceAt(i)
                max_profit == s.risk_reward.max_profit * GridScale
                max_loss == s.risk_reward.max_loss * GridScale
            IN  IF s.type = "Bull Call Spread"
                THEN LET buy == s.setup.buy_call.strike * GridScale
                         sell == s.setup.sell_call.strike * GridScale
                     IN  /\ price < buy => payoffs[i] = -max_loss
                         /\ (buy <= price /\ price <= sell) =>
                                payoffs[i] = -max_loss + (price - buy)
                         /\ price > sell => payoffs[i] = max_profit
                ELSE LET buy == s.setup.buy_put.strike * GridScale
                         sell == s.setup.sell_put.strike * GridScale
                     IN  /\ price > buy => payoffs[i] = -max_loss
                         /\ (sell <= price /\ price <= buy) =>
                                payoffs[i] = -max_loss + (buy - price)
                         /\ price < sell => payoffs[i] = max_profit

\* the whole grid of a Bear Put Spread has been evaluated, with points in
\* each of the three segments
C8_Witness ==
    /\ pc = "charted"
    /\ page.strategy.type = "Bear Put Spread"
    /\ Len(payoffs) = GridPoints
    /\ \E i, j, k \in 1..Len(payoffs) :
          /\ PriceAt(i) < page.strategy.setup.sell_put.strike * GridScale
          /\ PriceAt(j) > page.strategy.setup.sell_put.strike * GridScale
          /\ PriceAt(j) < page.strategy.setup.buy_put.strike * GridScale
          /\ PriceAt(k) > page.strategy.setup.buy_put.strike * GridScale

\* C9: for every returned two-leg spread, with its rounded max_profit and
\* max_loss, the payoff has no jump at either strike (the ramp reaches
\* max_profit at the far strike) and is exactly -max_loss at one extreme
\* and max_profit at the other extreme of the sampled range
\* [0.9 * price, 1.1 * price].
C9_ContinuousAndExtremes ==
    pc = "done" =>
        \A s \in ReturnedSet :
            TwoLeg(s) =>
                LET lo == Payoff(s, GridPrice(current_price, 0))
                    hi == Payoff(s, GridPrice(current_price, GridPoints - 1))
                    max_profit == s.risk_reward.max_profit * GridScale
                    max_loss == s.risk_reward.max_loss * GridScale
                IN  /\ -s.risk_reward.max_loss + StrikeGap(s) = s.risk_reward.max_profit
                    /\ {lo, hi} = {-max_loss, max_profit}

\* C10: for an Iron Condor the payoff over the grid has five linear
\* segments: -max_loss at and below buy_put and at and above buy_call,
\* max_profit between sell_put and sell_call, and straight ramps between
\* each long strike and its short strike that meet the flat segments
\* without a jump.
C10_CondorFiveSegments ==
    (Charting /\ page.strategy.type = "Iron Condor") =>
        \A i \in 1..Len(payoffs) :
            LET s == page.strategy
                price == PriceAt(i)
                max_profit == s.risk_reward.max_profit * GridScale
                max_loss == s.risk_reward.max_loss * GridScale
                buy_put == s.setup.buy_put.strike * GridScale
                sell_put == s.setup.sell_put.strike * GridScale
                sell_call == s.setup.sell_call.strike * GridScale
                buy_call == s.setup.buy_call.strike * GridScale
            IN  /\ (price <= buy_put \/ price >= buy_call) => payoffs[i] = -max_loss
                /\ (sell_put <= price /\ price <= sell_call) => payoffs[i] = max_profit
                \* a ramp is the straight line from -max_loss at the long
                \* strike to max_profit at the short strike
                /\ (buy_put < price /\ price < sell_put) =>
                       (payoffs[i] + max_loss) * PutSpread(s)
                           = (s.risk_reward.max_profit + s.risk_reward.max_loss)
                                 * (price - buy_put)
                /\ (sell_call < price /\ price < buy_call) =>
                       (payoffs[i] + max_loss) * CallSpread(s)
                           = (s.risk_reward.max_profit + s.risk_reward.max_loss)
                                 * (buy_call - price)

\* C11: every returned recommendation has days_to_expiry > 0, and its value
\* is one of the weekly horizons 7, 14, 21, 28 counted from the time of the
\* call.
C11_WeeklyHorizons ==
    pc = "done" =>
        \A s \in ReturnedSet :
            /\ s.days_to_expiry > 0
            /\ s.days_to_expiry \in {7, 14, 21, 28}

\* the keys of a result without 'error' that the options page subscripts
PageReads ==
    {"current_price", "volatility", "technical_sentiment", "news_sentiment",
     "volatility_regime", "black_swan_comparison", "overall_sentiment",
     "strategies"}

\* the keys of a strategy that the options page subscripts
StrategyReads ==
    {"expiry", "days_to_expiry", "type", "description", "sentiment_data",
     "setup", "risk_reward"}

\* C13: every recommendation of a successful result carries its sentiment
\* context, so that every field the options page reads from a result
\* without 'error' is present.
C13_PageFieldsPresent ==
    (pc = "done" /\ "error" \notin DOMAIN result) =>
        /\ PageReads \subseteq DOMAIN result
        /\ \A s \in ReturnedSet : StrategyReads \subseteq DOMAIN s

-----------------------------------------------------------------------------
(* analyze_options_strategy on a long list of expirations *)

\* the most expiration dates stock.options lists in this specification
MaxLongListed == 5

\* an expiration whose chain is liquid, one whose date strptime rejects and
\* one whose option_chain raises
LongListing(day, kind) ==
    IF kind = "liquid" THEN Listing(Date(day, TRUE), TRUE, DenseCalls, DensePuts)
    ELSE IF kind = "malformed" THEN Listing(Date(day, FALSE), TRUE, DenseCalls, DensePuts)
    ELSE Listing(Date(day, TRUE), FALSE, <<>>, <<>>)

\* the weekly dates of a list of n expirations, in the order the vendor
\* serves them: the code does not rely on that order being ascending
LongDays(n) ==
    { [i \in 1..n |-> 7 * i], [i \in 1..n |-> 7 * (n + 1 - i)] }

LongListedPool ==
    UNION { { [i \in 1..n |-> LongListing(days[i], kinds[i])] :
                days \in LongDays(n),
                kinds \in [1..n -> {"liquid", "malformed", "raises"}] } :
            n \in 0..MaxLongListed }

InitLong ==
    /\ stock \in { [hist |-> [status |-> "ok", close |-> 10000, volatility |-> v],
                    listed |-> l] : v \in {150, 250}, l \in LongListedPool }
    /\ now \in {0, 1}
    /\ verdict = [label |-> "Neutral", regime |-> "Normal"]
    /\ pc = "start"
    /\ pending = <<>>
    /\ strategies = <<>>
    /\ dropped = <<>>
    /\ result = None
    /\ page = None
    /\ payoffs = <<>>
    /\ df = None
    /\ factors = None
    /\ OthersIdle

SpecLong == InitLong /\ [][Next]_vars

\* C12: the returned strategies are in non-decreasing order of
\* days_to_expiry, there is at most one of them per expiration, and so
\* there are at most four.
C12_OrderedOnePerExpiry ==
    pc = "done" =>
        /\ \A i, j \in 1..Len(Returned) :
              i < j =>
                  /\ Returned[i].days_to_expiry <= Returned[j].days_to_expiry
                  /\ Returned[i].expiry # Returned[j].expiry
        /\ Len(Returned) <= MaxExpirations

\* five expirations listed latest first, four strategies returned
C12_Witness ==
    /\ pc = "done"
    /\ Len(stock.listed) > MaxExpirations
    /\ stock.listed[1].date.day > stock.listed[2].date.day
    /\ Len(Returned) = MaxExpirations

-----------------------------------------------------------------------------
(* The floating-point values pandas computes: a finite ratio n / d with
   d > 0, an infinity of sign n, or NaN.  Division by zero gives an
   infinity or NaN and does not raise; a comparison with NaN is False. *)

Num(n, d) == [kind |-> "num", n |-> n, d |-> d]

NaN == [kind |-> "nan", n |-> 0, d |-> 1]

Inf(sign) == [kind |-> "inf", n |-> sign, d |-> 1]

Sign(n) == IF n > 0 THEN 1 ELSE IF n < 0 THEN -1 ELSE 0

IsNaN(x) == x.kind = "nan"

IsInf(x) == x.kind = "inf"

\* x > y
FGt(x, y) ==
    IF IsNaN(x) \/ IsNaN(y) THEN FALSE
    ELSE IF IsInf(x) THEN x.n > 0 /\ ~(IsInf(y) /\ y.n > 0)
    ELSE IF IsInf(y) THEN y.n < 0
    ELSE x.n * y.d > y.n * x.d

\* x < y
FLt(x, y) == FGt(y, x)

RECURSIVE Gcd(_, _)
Gcd(a, b) == IF b = 0 THEN a ELSE Gcd(b, a % b)

\* a finite ratio in lowest terms
Reduce(x) ==
    LET g == Gcd(Abs(x.n), x.d)
    IN  Num(x.n \div g, x.d \div g)

\* x == y
FEq(x, y) ==
    IF IsNaN(x) \/ IsNaN(y) THEN FALSE
    ELSE IF IsInf(x) \/ IsInf(y) THEN IsInf(x) /\ IsInf(y) /\ x.n = y.n
    ELSE Reduce(x) = Reduce(y)

\* x + y
FAdd(x, y) ==
    IF IsNaN(x) \/ IsNaN(y) THEN NaN
    ELSE IF IsInf(x) THEN (IF IsInf(y) /\ y.n # x.n THEN NaN ELSE x)
    ELSE IF IsInf(y) THEN y
    ELSE IF x.d = y.d THEN Num(x.n + y.n, x.d)
    ELSE Num(x.n * y.d + y.n * x.d, x.d * y.d)

\* -x
FNeg(x) == IF IsNaN(x) THEN NaN ELSE [x EXCEPT !.n = -x.n]

\* x - y
FSub(x, y) == FAdd(x, FNeg(y))

\* x * y
FMul(x, y) ==
    IF IsNaN(x) \/ IsNaN(y) THEN NaN
    ELSE IF IsInf(x) \/ IsInf(y)
         THEN (IF x.n = 0 \/ y.n = 0 THEN NaN ELSE Inf(Sign(x.n) * Sign(y.n)))
    ELSE Num(x.n * y.n, x.d * y.d)

\* x / y
FDiv(x, y) ==
    IF IsNaN(x) \/ IsNaN(y) THEN NaN
    ELSE IF IsInf(x) THEN (IF IsInf(y) THEN NaN
                           ELSE Inf(IF y.n < 0 THEN -x.n ELSE x.n))
    ELSE IF IsInf(y) THEN Num(0, 1)
    ELSE IF y.n = 0 THEN (IF x.n = 0 THEN NaN ELSE Inf(Sign(x.n)))
    ELSE IF x.d = y.d THEN Num(x.n * Sign(y.n), Abs(y.n))
    ELSE Num(x.n * y.d * Sign(y.n), x.d * Abs(y.n))

-----------------------------------------------------------------------------
(* Series operations of pandas on the 'Close' column, in cents *)

RECURSIVE SumSeq(_)
SumSeq(seq) == IF seq = <<>> THEN 0 ELSE Head(seq) + SumSeq(Tail(seq))

\* the last 'window' values of a series
LastWindow(seq, window) == SubSeq(seq, Len(seq) - window + 1, Len(seq))

\* seq.rolling(window).mean().iloc[-1]: NaN until the window is full
RollingMeanLast(seq, window) ==
    IF Len(seq) < window THEN NaN
    ELSE Num(SumSeq(LastWindow(seq, window)), window)

\* closes.diff(): NaN at the first bar, written 0 here because both uses
\* replace it by 0 (NaN > 0 and NaN < 0 are False)
Diff(closes) ==
    [i \in 1..Len(closes) |-> IF i = 1 THEN 0 ELSE closes[i] - closes[i - 1]]

\* delta.where(delta > 0, 0)
Gains(closes) ==
    LET delta == Diff(closes)
    IN  [i \in 1..Len(closes) |-> IF delta[i] > 0 THEN delta[i] ELSE 0]

\* -delta.where(delta < 0, 0)
Losses(closes) ==
    LET delta == Diff(closes)
    IN  [i \in 1..Len(closes) |-> IF delta[i] < 0 THEN -delta[i] ELSE 0]

RsiWindow == 14

SmaShort == 20

SmaLong == 50

\* rsi.iloc[-1]
Rsi(closes) ==
    LET gain == RollingMeanLast(Gains(closes), RsiWindow)
        loss == RollingMeanLast(Losses(closes), RsiWindow)
        rs == FDiv(gain, loss)
    IN  FSub(Num(100, 1), FDiv(Num(100, 1), FAdd(Num(1, 1), rs)))

\* the tag of one directional rule
Tag(above, bullish, bearish) == IF above THEN bullish ELSE bearish

\* ma_signals with the rule of an undefined average giving no tag
MaSignalsDefinedOnly(current, sma_20, sma_50, macd, signal) ==
    (IF IsNaN(sma_20) THEN <<>>
     ELSE << Tag(FGt(current, sma_20),
                 "Above 20-day MA (Bullish)", "Below 20-day MA (Bearish)") >>)
    \o (IF IsNaN(sma_50) THEN <<>>
        ELSE << Tag(FGt(current, sma_50),
                    "Above 50-day MA (Bullish)", "Below 50-day MA (Bearish)") >>)
    \o << Tag(FGt(macd, signal),
              "MACD Above Signal (Bullish)", "MACD Below Signal (Bearish)") >>

\* the list ma_signals
MaSignals(current, sma_20, sma_50, macd, signal) ==
    << Tag(FGt(current, sma_20),
           "Above 20-day MA (Bullish)", "Below 20-day MA (Bearish)"),
       Tag(FGt(current, sma_50),
           "Above 50-day MA (Bullish)", "Below 50-day MA (Bearish)"),
       Tag(FGt(macd, signal),
           "MACD Above Signal (Bullish)", "MACD Below Signal (Bearish)") >>

\* "Bullish" in signal
HasBullish(tag) ==
    tag \in {"Above 20-day MA (Bullish)", "Above 50-day MA (Bullish)",
             "MACD Above Signal (Bullish)"}

\* "Bearish" in signal
HasBearish(tag) ==
    tag \in {"Below 20-day MA (Bearish)", "Below 50-day MA (Bearish)",
             "MACD Below Signal (Bearish)"}

bullish_count(ma_signals) ==
    Cardinality({ i \in 1..Len(ma_signals) : HasBullish(ma_signals[i]) })

bearish_count(ma_signals) ==
    Cardinality({ i \in 1..Len(ma_signals) : HasBearish(ma_signals[i]) })

\* the sentiment that one bullish tag suffices for
SentimentAnyBullish(ma_signals) ==
    IF bullish_count(ma_signals) > 0 THEN "Bullish" ELSE "Bearish"

technical_sentiment(ma_signals) ==
    IF bullish_count(ma_signals) > bearish_count(ma_signals)
    THEN "Bullish" ELSE "Bearish"

-----------------------------------------------------------------------------
(* analyze_current_volatility_regime *)

DrawdownWindow == 252

VolWindow == 20

\* the maximum of the whole series
MaxOfAll(closes, window) ==
    CHOOSE m \in { closes[i] : i \in 1..Len(closes) } :
        \A i \in 1..Len(closes) : closes[i] <= m

\* closes.rolling(window, min_periods=1).max().iloc[-1]
RollingMaxLast(closes, window) ==
    LET w == LastWindow(closes, Min(window, Len(closes)))
    IN  CHOOSE m \in { w[i] : i \in 1..Len(w) } :
            \A i \in 1..Len(w) : w[i] <= m

\* drawdown.iloc[-1]
current_drawdown(closes) ==
    LET rolling_max == Num(RollingMaxLast(closes, DrawdownWindow), 1)
    IN  FDiv(FSub(Num(closes[Len(closes)], 1), rolling_max), rolling_max)

\* 'volatility_impact' of the five events, in tenths of a percent
VolatilityImpact == <<784, 895, 421, 258, 480>>

\* the mean of the impacts as listed, in percent
AvgImpactAsListed == Num(SumSeq(VolatilityImpact), Len(VolatilityImpact) * 10)

avg_black_swan_vol == Num(SumSeq(VolatilityImpact), Len(VolatilityImpact) * 1000)

\* a percentile measured from the window's maximum
PercentileFromMax(frame) ==
    FDiv(FSub(frame.rolling_max, frame.current_volatility),
         FSub(frame.rolling_max, frame.rolling_min))

vol_percentile(frame) ==
    FDiv(FSub(frame.current_volatility, frame.rolling_min),
         FSub(frame.rolling_max, frame.rolling_min))

\* the regime with the two thresholds exchanged
RegimeSwapped(percentile) ==
    IF FGt(percentile, Num(3, 10)) THEN "High Volatility"
    ELSE IF FLt(percentile, Num(7, 10)) THEN "Low Volatility"
    ELSE "Normal"

regime(percentile) ==
    IF FGt(percentile, Num(7, 10)) THEN "High Volatility"
    ELSE IF FLt(percentile, Num(3, 10)) THEN "Low Volatility"
    ELSE "Normal"

\* the dict returned, with the locals vol_percentile and current_drawdown
\* beside it
analyze_current_volatility_regime(frame) ==
    [vol_percentile |-> vol_percentile(frame),
     current_drawdown |-> current_drawdown(frame.close),
     volatility_analysis |->
        [current_volatility |-> frame.current_volatility,
         current_drawdown |-> FMul(current_drawdown(frame.close), Num(100, 1)),
         volatility_regime |-> regime(vol_percentile(frame)),
         comparison_to_black_swans |->
            [current_vol_vs_avg_black_swan |->
                FMul(FDiv(frame.current_volatility, avg_black_swan_vol),
                     Num(100, 1))]]]

-----------------------------------------------------------------------------
(* The frames fetch_stock_data can return.  The closes are listed bar by
   bar.  The standard deviations of the returns and the exponential
   averages behind the MACD are not ratios of small integers, so the frame
   carries the values pandas computes for them (volatilities in thousandths,
   MACD in hundredths of a cent), constrained by what decides whether they
   are defined: the number of bars, and a flat series giving zeros. *)

\* the longest series
MaxBars == 253

Lengths == {0, 1, 2, 13, 14, 19, 20, 21, 49, 50, 60, DrawdownWindow, MaxBars}

Shapes == {"flat", "up", "down", "zigzag", "vee", "spike"}

\* the close of bar i of a series of n bars
Close(shape, n, i) ==
    IF shape = "flat" THEN 10000
    ELSE IF shape = "up" THEN 10000 + 50 * i
    ELSE IF shape = "down" THEN 30000 - 50 * i
    ELSE IF shape = "zigzag" THEN 10000 + 200 * (i % 2)
    ELSE IF shape = "vee"
         THEN LET k == Max(n - 10, 0)
              IN  IF i <= k THEN 20000 - 30 * i
                  ELSE 20000 - 30 * k + 40 * (i - k)
    ELSE IF i = 1 THEN 20000 ELSE 10000 + 10 * i

ClosesPool ==
    { [i \in 1..n |-> Close(shape, n, i)] : shape \in Shapes, n \in Lengths }

IsFlat(closes) == \A i \in 1..Len(closes) : closes[i] = closes[1]

Vol(v) == Num(v, 1000)

\* closes alternating between two prices
IsAlternating(closes) == \A i \in 3..Len(closes) : closes[i] = closes[i - 2]

\* <<current volatility, rolling_vol.min(), rolling_vol.max()>>: the
\* deviation of all returns needs two returns, a rolling deviation needs
\* VolWindow returns, and a series with one full window has the deviation
\* of that window for all three.  Closes alternating between 100.00 and
\* 102.00 put ten returns of each sign in every window, so every window has
\* the same deviation (0.323), and the longer whole series a smaller one
\* (0.318).  For the other series the current volatility is taken below,
\* inside, at the thresholds of and above the range of the windows.
VolatilityPool(closes) ==
    IF Len(closes) < 3 THEN { <<NaN, NaN, NaN>> }
    ELSE IF IsFlat(closes)
         THEN (IF Len(closes) <= VolWindow
               THEN { <<Vol(0), NaN, NaN>> }
               ELSE { <<Vol(0), Vol(0), Vol(0)>> })
    ELSE IF Len(closes) <= VolWindow THEN { <<Vol(200), NaN, NaN>> }
    ELSE IF Len(closes) = VolWindow + 1 THEN { <<Vol(200), Vol(200), Vol(200)>> }
    ELSE IF IsAlternating(closes) THEN { <<Vol(318), Vol(323), Vol(323)>> }
    ELSE { <<Vol(c), Vol(150), Vol(250)>> :
             c \in {100, 160, 180, 200, 220, 240, 300} }

\* <<macd.iloc[-1], signal.iloc[-1]>>: both zero on a flat series
MacdPool(closes) ==
    IF IsFlat(closes) THEN { <<Num(0, 100), Num(0, 100)>> }
    ELSE { <<Num(30, 100), Num(10, 100)>>, <<Num(10, 100), Num(10, 100)>>,
           <<Num(-20, 100), Num(10, 100)>> }

FramePool ==
    UNION { { [close |-> c,
               current_volatility |-> v[1],
               rolling_min |-> v[2],
               rolling_max |-> v[3],
               macd |-> m[1],
               signal |-> m[2]] :
              v \in VolatilityPool(c), m \in MacdPool(c) } :
            c \in ClosesPool }

-----------------------------------------------------------------------------
(* analyze_price_factors *)

\* the empty dict of the except branch
EmptyDict == [empty |-> TRUE]

InitFactors ==
    /\ df \in FramePool
    /\ factors = None
    /\ OthersIdle
    /\ pc = "factors"
    /\ stock = None
    /\ now = 0
    /\ verdict = None
    /\ pending = <<>>
    /\ strategies = <<>>
    /\ dropped = <<>>
    /\ result = None
    /\ page = None
    /\ payoffs = <<>>

\* lines 99-126: an empty frame raises, else the indicators are computed
ComputeIndicators ==
    /\ pc = "factors"
    /\ IF df.close = <<>>
       THEN /\ factors' = EmptyDict
            /\ pc' = "returned"
       ELSE /\ factors' = [rsi |-> Rsi(df.close),
                           macd |-> df.macd,
                           signal |-> df.signal,
                           sma_20 |-> RollingMeanLast(df.close, SmaShort),
                           sma_50 |-> RollingMeanLast(df.close, SmaLong)]
            /\ pc' = "regime"
    /\ UNCHANGED <<stock, now, verdict, pending, strategies, dropped, result,
                   page, payoffs, df, others>>

\* line 129
CallVolatilityRegime ==
    /\ pc = "regime"
    /\ LET out == analyze_current_volatility_regime(df)
       IN  factors' = [rsi |-> factors.rsi,
                       macd |-> factors.macd,
                       signal |-> factors.signal,
                       sma_20 |-> factors.sma_20,
                       sma_50 |-> factors.sma_50,
                       vol_percentile |-> out.vol_percentile,
                       current_drawdown |-> out.current_drawdown,
                       volatility_analysis |-> out.volatility_analysis]
    /\ pc' = "summary"
    /\ UNCHANGED <<stock, now, verdict, pending, strategies, dropped, result,
                   page, payoffs, df, others>>

\* lines 134-181: the tags, the sentiment and the dict returned; iloc[-2]
\* raises on a frame of one bar
Summarise ==
    /\ pc = "summary"
    /\ LET price == Num(df.close[Len(df.close)], 1)
           ma_signals == MaSignals(price, factors.sma_20,
                                   factors.sma_50, factors.macd, factors.signal)
       IN  factors' =
              IF Len(df.close) < 2 THEN EmptyDict
              ELSE [technical_indicators |->
                        [rsi |-> factors.rsi,
                         macd |-> factors.macd,
                         macd_signal |-> factors.signal,
                         sma_20 |-> factors.sma_20,
                         sma_50 |-> factors.sma_50],
                    price_action |-> [current_price |-> price],
                    market_signals |-> ma_signals,
                    technical_sentiment |-> technical_sentiment(ma_signals),
                    volatility_analysis |-> factors.volatility_analysis]
    /\ pc' = "returned"
    /\ UNCHANGED <<stock, now, verdict, pending, strategies, dropped, result,
                   page, payoffs, df, others>>

NextFactors == ComputeIndicators \/ CallVolatilityRegime \/ Summarise

SpecFactors == InitFactors /\ [][NextFactors]_vars

FactorsReturned == pc = "returned" /\ "technical_sentiment" \in DOMAIN factors

-----------------------------------------------------------------------------
(* Properties of analyze_price_factors *)

Signals == factors.market_signals

LastClose == df.close[Len(df.close)]

\* the sum of the last 'window' closes
TrailingSum(window) ==
    SumSeq(SubSeq(df.close, Len(df.close) - window + 1, Len(df.close)))

\* C14: the summary applies exactly three directional rules, each giving
\* one tag marked Bullish or Bearish: the last close against the 20-day
\* average, against the 50-day average, and the MACD against its signal
\* line; technical_sentiment is "Bullish" exactly when the bullish tags
\* outnumber the bearish ones, and "Bearish" otherwise.
C14_ThreeRulesMajority ==
    FactorsReturned =>
        /\ Len(Signals) = 3
        /\ Signals[1] \in {"Above 20-day MA (Bullish)", "Below 20-day MA (Bearish)"}
        /\ Signals[2] \in {"Above 50-day MA (Bullish)", "Below 50-day MA (Bearish)"}
        /\ Signals[3] \in {"MACD Above Signal (Bullish)", "MACD Below Signal (Bearish)"}
        /\ Len(df.close) >= SmaShort =>
              (Signals[1] = "Above 20-day MA (Bullish)"
                  <=> LastClose * SmaShort > TrailingSum(SmaShort))
        /\ Len(df.close) >= SmaLong =>
              (Signals[2] = "Above 50-day MA (Bullish)"
                  <=> LastClose * SmaLong > TrailingSum(SmaLong))
        /\ Signals[3] = "MACD Above Signal (Bullish)"
              <=> df.macd.n * df.signal.d > df.signal.n * df.macd.d
        /\ LET bullish == Cardinality({ i \in 1..3 : HasBullish(Signals[i]) })
               bearish == Cardinality({ i \in 1..3 : HasBearish(Signals[i]) })
           IN  /\ bullish + bearish = 3
               /\ factors.technical_sentiment \in {"Bullish", "Bearish"}
               /\ factors.technical_sentiment = "Bullish" <=> bullish > bearish

\* a close above the 20-day average and below the 50-day average with the
\* MACD above its signal line: two bullish tags against one
C14_Witness ==
    /\ FactorsReturned
    /\ Signals = <<"Above 20-day MA (Bullish)", "Below 50-day MA (Bearish)",
                   "MACD Above Signal (Bullish)">>
    /\ Len(df.close) >= SmaLong
    /\ factors.technical_sentiment = "Bullish"

\* C15: when the series is too short to fill a moving-average window
\* (fewer than 20 bars for the 20-day average, fewer than 50 for the 50-day
\* one), the undefined average is left out: its rule contributes no tag, and
\* the result reports the average as undefined.
C15_ShortSeriesNoTag ==
    FactorsReturned =>
        /\ Len(df.close) < SmaShort =>
              /\ IsNaN(factors.technical_indicators.sma_20)
              /\ \A i \in 1..Len(Signals) :
                    Signals[i] \notin {"Above 20-day MA (Bullish)",
                                       "Below 20-day MA (Bearish)"}
        /\ Len(df.close) < SmaLong =>
              /\ IsNaN(factors.technical_indicators.sma_50)
              /\ \A i \in 1..Len(Signals) :
                    Signals[i] \notin {"Above 50-day MA (Bullish)",
                                       "Below 50-day MA (Bearish)"}

\* whether the last RsiWindow deltas of the series hold no loss
NoLossInWindow ==
    /\ Len(df.close) >= RsiWindow
    /\ \A i \in (Len(df.close) - RsiWindow + 1)..Len(df.close) :
          i > 1 => df.close[i] >= df.close[i - 1]

\* C16: for every series whose last 14 deltas contain no loss (the average
\* loss is 0), constant daily gains in particular, the RSI is 100 and no
\* division-by-zero error is raised; whenever the RSI is defined it lies in
\* 0..100.
C16_RsiNoLoss ==
    pc = "returned" =>
        /\ NoLossInWindow =>
              /\ FactorsReturned
              /\ FEq(factors.technical_indicators.rsi, Num(100, 1))
        /\ FactorsReturned =>
              LET rsi == factors.technical_indicators.rsi
              IN  ~IsNaN(rsi) =>
                      /\ ~FLt(rsi, Num(0, 1))
                      /\ ~FGt(rsi, Num(100, 1))

-----------------------------------------------------------------------------
(* Properties of analyze_current_volatility_regime *)

\* the volatility analysis has been computed
RegimeComputed == pc \in {"summary", "returned"} /\ "volatility_analysis" \in DOMAIN factors

Analysis == factors.volatility_analysis

\* the rolling volatility has a range: its minimum and maximum are defined
\* and differ
NonDegenerate ==
    /\ ~IsNaN(df.rolling_min)
    /\ ~IsNaN(df.rolling_max)
    /\ df.rolling_max.n > df.rolling_min.n

\* C17: with percentile = (current - rolling.min) / (rolling.max -
\* rolling.min), the regime is "High Volatility" if percentile > 0.7, "Low
\* Volatility" if percentile < 0.3 and "Normal" otherwise: for every
\* non-degenerate rolling window exactly one of the three values.
C17_RegimeThresholds ==
    (RegimeComputed /\ NonDegenerate) =>
        LET above == df.current_volatility.n - df.rolling_min.n
            range == df.rolling_max.n - df.rolling_min.n
        IN  /\ Analysis.volatility_regime \in Regimes
            /\ Analysis.volatility_regime = "High Volatility"
                  <=> 10 * above > 7 * range
            /\ Analysis.volatility_regime = "Low Volatility"
                  <=> 10 * above < 3 * range
            /\ Analysis.volatility_regime = "Normal"
                  <=> (10 * above >= 3 * range /\ 10 * above <= 7 * range)

\* a current volatility inside the range of the window and above 0.7 of it
C17_Witness ==
    /\ RegimeComputed
    /\ NonDegenerate
    /\ Analysis.volatility_regime = "High Volatility"
    /\ df.current_volatility.n < df.rolling_max.n

\* C18: the percentile the regime is computed from is always within
\* [0, 1]: it is clamped to 0 when the current volatility lies below the
\* minimum of the rolling volatility and to 1 when it lies above the
\* maximum.
C18_PercentileClamped ==
    (pc = "summary" /\ NonDegenerate) =>
        /\ ~FLt(factors.vol_percentile, Num(0, 1))
        /\ ~FGt(factors.vol_percentile, Num(1, 1))
        /\ FLt(df.current_volatility, df.rolling_min) =>
              FEq(factors.vol_percentile, Num(0, 1))
        /\ FGt(df.current_volatility, df.rolling_max) =>
              FEq(factors.vol_percentile, Num(1, 1))

\* the rolling volatility has one value only: its maximum equals its minimum
Degenerate ==
    /\ ~IsNaN(df.rolling_min)
    /\ ~IsNaN(df.rolling_max)
    /\ FEq(df.rolling_max, df.rolling_min)

\* C19: whenever the rolling volatility has max == min the regime is
\* "Normal", whatever the current volatility, and no division error
\* occurs; a flat series gives current_volatility 0, regime "Normal" and a
\* black-swan reference ratio of 0.
C19_DegenerateIsNormal ==
    (pc \in {"summary", "returned"} /\ Len(df.close) > 1) =>
        /\ Degenerate =>
              /\ RegimeComputed
              /\ Analysis.volatility_regime = "Normal"
        /\ (IsFlat(df.close) /\ Len(df.close) > VolWindow) =>
              /\ RegimeComputed
              /\ FEq(Analysis.current_volatility, Num(0, 1))
              /\ Analysis.volatility_regime = "Normal"
              /\ FEq(Analysis.comparison_to_black_swans.current_vol_vs_avg_black_swan,
                     Num(0, 1))

\* C20: for positive closes, current_drawdown is (close - running_max) /
\* running_max, where running_max is the greatest close of the trailing 252
\* bars, the current bar included; it is never positive, and it is 0
\* exactly when the last close is that maximum.
C20_DrawdownNonPositive ==
    pc = "summary" =>
        LET n == Len(df.close)
            first == Max(1, n - DrawdownWindow + 1)
            drawdown == factors.current_drawdown
        IN  \E m \in first..n :
                /\ \A j \in first..n : df.close[j] <= df.close[m]
                /\ FEq(drawdown, Num(df.close[n] - df.close[m], df.close[m]))
                /\ ~FGt(drawdown, Num(0, 1))
                /\ FEq(drawdown, Num(0, 1)) <=> df.close[n] = df.close[m]

\* a close above the last one has left the trailing window: the drawdown
\* is 0 below an older peak
C20_Witness ==
    /\ pc = "summary"
    /\ Len(df.close) > DrawdownWindow
    /\ df.close[1] > LastClose
    /\ FEq(factors.current_drawdown, Num(0, 1))

\* 'current_vol_vs_avg_black_swan' of the dict returned
BlackSwanRatio == Analysis.comparison_to_black_swans.current_vol_vs_avg_black_swan

\* the sum of the five listed impacts, in tenths of a percent
ImpactSum ==
    VolatilityImpact[1] + VolatilityImpact[2] + VolatilityImpact[3]
        + VolatilityImpact[4] + VolatilityImpact[5]

\* C21 as stated: the reference ratio is the current volatility divided by
\* the mean of the five volatility_impact values as they are listed
\* (percent figures), times 100.
C21_RatioOfListedMean ==
    (RegimeComputed /\ ~IsNaN(df.current_volatility)) =>
        \* v/1000 / (ImpactSum/50) * 100
        FEq(BlackSwanRatio, Num(df.current_volatility.n * 5, ImpactSum))

\* C21: the reference ratio is the current volatility divided by the mean
\* of the five volatility_impact values taken as fractions (the listed
\* percent figures divided by 100), times 100.
C21_RatioOfMeanFraction ==
    (RegimeComputed /\ ~IsNaN(df.current_volatility)) =>
        \* v/1000 / (ImpactSum/5000) * 100
        FEq(BlackSwanRatio, Num(df.current_volatility.n * 500, ImpactSum))

\* a current volatility of 0.2 against the mean impact of 0.5676
C21_Witness ==
    /\ RegimeComputed
    /\ FEq(df.current_volatility, Num(1, 5))
    /\ FGt(BlackSwanRatio, Num(35, 1))
    /\ FLt(BlackSwanRatio, Num(36, 1))

-----------------------------------------------------------------------------
(* analyze_news_sentiment *)

\* the most articles in the stream
MaxNews == 3

RecentNews == 5

\* TextBlob(title).sentiment.polarity in hundredths, for a favourable, a
\* neutral and an unfavourable title
Polarities == {43, 0, -50}

\* an article, and what scoring its title does: it returns a polarity or
\* it raises
Article(date, polarity, raises) ==
    [date |-> date, polarity |-> polarity, raises |-> raises]

\* <<polarity, whether scoring raises>>
Scorings == { <<polarity, FALSE>> : polarity \in Polarities } \cup { <<0, TRUE>> }

\* news_data: article i is dated i days back
NewsPool ==
    UNION { { [i \in 1..n |-> Article(i, scoring[i][1], scoring[i][2])] :
                scoring \in [1..n -> Scorings] } :
            n \in 0..MaxNews }

\* the dict of the except branch
SentimentDefault ==
    [score |-> Num(0, 1),
     positive_count |-> 0,
     negative_count |-> 0,
     recent_news |-> <<>>]

InitSentiment ==
    /\ news \in NewsPool
    /\ sentiment = None
    /\ pc = "news"
    /\ stock = None
    /\ now = 0
    /\ verdict = None
    /\ pending = <<>>
    /\ strategies = <<>>
    /\ dropped = <<>>
    /\ result = None
    /\ page = None
    /\ payoffs = <<>>
    /\ df = None
    /\ factors = None
    /\ prediction = None
    /\ market_data = None
    /\ confidence = None

\* lines 12-18
StartScoring ==
    /\ pc = "news"
    /\ sentiment' = [sentiment_scores |-> <<>>,
                     positive_count |-> 0,
                     negative_count |-> 0]
    /\ pc' = "scoring"
    /\ UNCHANGED <<stock, now, verdict, pending, strategies, dropped, result,
                   page, payoffs, df, factors, news, prediction, market_data,
                   confidence>>

\* one pass of the loop of lines 21-34
ScoreArticle ==
    /\ pc = "scoring"
    /\ Len(sentiment.sentiment_scores) < Len(news)
    /\ LET article == news[Len(sentiment.sentiment_scores) + 1]
           sentiment_score == article.polarity
       IN  IF article.raises
           THEN /\ sentiment' = SentimentDefault
                /\ pc' = "scored"
           ELSE /\ sentiment' =
                      [sentiment_scores |->
                           Append(sentiment.sentiment_scores,
                                  [date |-> article.date, score |-> sentiment_score]),
                       positive_count |->
                           IF sentiment_score > 0
                           THEN sentiment.positive_count + 1
                           ELSE sentiment.positive_count,
                       negative_count |->
                           IF sentiment_score > 0 THEN sentiment.negative_count
                           ELSE IF sentiment_score < 0
                                THEN sentiment.negative_count + 1
                                ELSE sentiment.negative_count]
                /\ pc' = "scoring"
    /\ UNCHANGED <<stock, now, verdict, pending, strategies, dropped, result,
                   page, payoffs, df, factors, news, prediction, market_data,
                   confidence>>

\* sum(s['score'] for s in sentiment_scores)
RECURSIVE SumScores(_)
SumScores(scores) ==
    IF scores = <<>> THEN 0 ELSE Head(scores).score + SumScores(Tail(scores))

\* lines 36-48
Aggregate ==
    /\ pc = "scoring"
    /\ Len(sentiment.sentiment_scores) = Len(news)
    /\ LET scores == sentiment.sentiment_scores
       IN  sentiment' =
              [score |-> IF scores = <<>> THEN Num(0, 1)
                         ELSE Num(SumScores(scores), 100 * Len(scores)),
               positive_count |-> sentiment.positive_count,
               negative_count |-> sentiment.negative_count,
               recent_news |-> [i \in 1..Min(RecentNews, Len(scores)) |-> scores[i].date]]
    /\ pc' = "scored"
    /\ UNCHANGED <<stock, now, verdict, pending, strategies, dropped, result,
                   page, payoffs, df, factors, news, prediction, market_data,
                   confidence>>

NextSentiment == StartScoring \/ ScoreArticle \/ Aggregate

SpecSentiment == InitSentiment /\ [][NextSentiment]_vars

\* the summary of no information: average 0 and both counts 0
IsNeutralSummary ==
    /\ FEq(sentiment.score, Num(0, 1))
    /\ sentiment.positive_count = 0
    /\ sentiment.negative_count = 0

\* scoring some article of the stream raises
ScoringFails == \E i \in 1..Len(news) : news[i].raises

\* C22: the summary of an empty stream has average_score 0 exactly and
\* both counts 0, and this neutral default is produced for the empty
\* stream only: a computation that failed on a non-empty stream does not
\* return it.
C22_NeutralOnlyWhenEmpty ==
    pc = "scored" =>
        /\ news = <<>> => IsNeutralSummary
        /\ ScoringFails => ~IsNeutralSummary

\* C23: positive_count is the number of items with polarity > 0 and
\* negative_count the number with polarity < 0; an item of polarity 0 is
\* counted in neither, so positive_count + negative_count <= total items.
C23_CountsBySign ==
    pc = "scored" =>
        /\ sentiment.positive_count =
              Cardinality({ i \in 1..Len(news) :
                              ~news[i].raises /\ news[i].polarity > 0 })
        /\ sentiment.negative_count =
              Cardinality({ i \in 1..Len(news) :
                              ~news[i].raises /\ news[i].polarity < 0 })
        /\ sentiment.positive_count + sentiment.negative_count <= Len(news)

------------------------------------------------------------------------------
(* The fused label of a result *)

\* C24: every result without 'error' carries exactly one fused label,
\* 'overall_sentiment', one of Strong Bullish, Moderately Bullish, Neutral,
\* Moderately Bearish and Strong Bearish (the label the thresholds on
\* total = 0.4 technical + 0.3 sentiment + 0.3 volatility select).
C24_FusedLabelOfResult ==
    (pc = "done" /\ "error" \notin DOMAIN result) =>
        /\ "overall_sentiment" \in DOMAIN result
        /\ result.overall_sentiment \in Labels

------------------------------------------------------------------------------
(* predict_price_range (utils/ml_predictor.py), called by main.py with the
   frame fetch_stock_data returned *)

\* the columns of the frame fetch_stock_data returns
RequiredColumns == {"Open", "High", "Low", "Close", "Volume"}

\* the columns lines 12-15 assign
FeatureColumns == {"SMA_5", "SMA_20", "Daily_Return", "Volatility"}

\* the window of SMA_20 and of Volatility
FeatureWindow == 20

\* the rows df.dropna() keeps: Volatility, the deviation of FeatureWindow
\* returns, is NaN on the first FeatureWindow bars
RowsAfterDropna(closes) == Max(Len(closes) - FeatureWindow, 0)

\* a frame of the Open, High, Low, Close and Volume of the bars listed
PriceFrame(closes) == [close |-> closes, columns |-> RequiredColumns]

InitPredict ==
    /\ df \in { PriceFrame(c) : c \in ClosesPool }
    /\ prediction = None
    /\ pc = "features"
    /\ stock = None
    /\ now = 0
    /\ verdict = None
    /\ pending = <<>>
    /\ strategies = <<>>
    /\ dropped = <<>>
    /\ result = None
    /\ page = None
    /\ payoffs = <<>>
    /\ factors = None
    /\ news = None
    /\ sentiment = None
    /\ market_data = None
    /\ confidence = None

\* lines 12-15: four column assignments on the frame of the caller
FeatureEngineering ==
    /\ pc = "features"
    /\ df' = [close |-> df.close, columns |-> df.columns \cup FeatureColumns]
    /\ pc' = "fit"
    /\ UNCHANGED <<stock, now, verdict, pending, strategies, dropped, result,
                   page, payoffs, factors, news, sentiment, prediction,
                   market_data, confidence>>

\* lines 18-49: 'df = df.dropna()' rebinds the local name only.  With no row
\* left the scaler raises and the handler's df['Low'].iloc[-1] raises again,
\* out of the function; with one row the fit on no sample raises and the
\* handler returns the last bar; otherwise the forests predict
FitAndPredict ==
    /\ pc = "fit"
    /\ LET rows == RowsAfterDropna(df.close)
           last == df.close[Len(df.close)]
       IN  prediction' =
               IF rows = 0 THEN [raised |-> "IndexError"]
               ELSE IF rows = 1 THEN [low |-> last, high |-> last, from |-> "last bar"]
               ELSE [from |-> "model"]
    /\ pc' = "predicted"
    /\ UNCHANGED <<stock, now, verdict, pending, strategies, dropped, result,
                   page, payoffs, df, factors, news, sentiment, market_data,
                   confidence>>

NextPredict == FeatureEngineering \/ FitAndPredict

SpecPredict == InitPredict /\ [][NextPredict]_vars

\* C25: no analysis operation mutates the price series it is given: after
\* predict_price_range has run on a frame, the frame has the columns it had
\* before.
C25_SeriesNotMutated ==
    pc = "predicted" => df.columns = RequiredColumns

------------------------------------------------------------------------------
(* analyze_options_strategy and the wall clock *)

\* C26: the analysis is a pure function of its inputs: the days_to_expiry of
\* every returned strategy is the one an invocation on the same price
\* series and option chain returns at any other time of the day (at
\* midnight), so that two invocations on the same inputs return the same
\* strategies whatever the wall clock.
C26_SameAtAnyTimeOfDay ==
    pc = "done" =>
        \A s \in ReturnedSet : s.days_to_expiry = DaysToExpiry(s.expiry, 0)

------------------------------------------------------------------------------
(* get_strategy_confidence_score (utils/ai_strategy_analyzer.py) and its
   call by the AI strategy page.  A dict is a record of its keys; scores
   and weights are in tenths, the confidence in percent. *)

\* dict.get(key, default)
Get(d, key, default) == IF key \in DOMAIN d THEN d[key] ELSE default

\* 'not d' of a dict or None
Falsy(d) == d = EmptyDict \/ IsNone(d)

\* the weights with the one of the sentiment doubled
WeightsSentimentDoubled == [technical |-> 3, sentiment |-> 8, analyst |-> 3]

\* lines 205-209
Weights == [technical |-> 3, sentiment |-> 4, analyst |-> 3]

\* the neutral score of lines 193, 202 and 239
NeutralScore == 50

\* 'Buy' in analyst_rating and 'Sell' in analyst_rating, for the ratings of
\* Ratings
HasBuy(rating) == rating \in {"Buy", "Strong Buy"}

HasSell(rating) == rating \in {"Sell"}

\* +1 when the recommendation is Bullish, -1 otherwise
Toward(ai_recommendation) ==
    IF Get(ai_recommendation, "strategy", "") = "Bullish" THEN 1 ELSE -1

\* lines 212-216; comparing None with a number raises
TechnicalAlignment(rsi, ai_recommendation) ==
    IF FGt(rsi, Num(70, 1)) THEN Weights.technical * (-Toward(ai_recommendation))
    ELSE IF FLt(rsi, Num(30, 1)) THEN Weights.technical * Toward(ai_recommendation)
    ELSE 0

\* lines 219-225
SentimentAlignment(weekly_sentiment, ai_recommendation) ==
    LET sentiment_score == Get(weekly_sentiment, "weekly_score", Num(0, 1))
        positive_ratio == Get(weekly_sentiment, "positive_ratio", Num(5, 10))
    IN  IF FGt(sentiment_score, Num(0, 1)) \/ FGt(positive_ratio, Num(6, 10))
        THEN Weights.sentiment * Toward(ai_recommendation)
        ELSE IF FLt(sentiment_score, Num(0, 1)) \/ FLt(positive_ratio, Num(4, 10))
        THEN Weights.sentiment * (-Toward(ai_recommendation))
        ELSE 0

\* lines 228-231
AnalystAlignment(analyst_rating, ai_recommendation) ==
    IF HasBuy(analyst_rating) THEN Weights.analyst * Toward(ai_recommendation)
    ELSE IF HasSell(analyst_rating) THEN Weights.analyst * (-Toward(ai_recommendation))
    ELSE 0

\* the local 'score' at line 234 for a dict with an ai_recommendation
RawScore(d) ==
    LET technical_indicators == Get(d, "technical_indicators", EmptyDict)
        weekly_sentiment == Get(d, "weekly_sentiment", EmptyDict)
        analyst_rating == Get(d, "analyst_rating", "")
        ai_recommendation == Get(d, "ai_recommendation", EmptyDict)
    IN  TechnicalAlignment(Get(technical_indicators, "rsi", Num(50, 1)),
                           ai_recommendation)
        + SentimentAlignment(weekly_sentiment, ai_recommendation)
        + AnalystAlignment(analyst_rating, ai_recommendation)

\* what raises inside the try block: None compared with a number, or
\* 'Buy' in None (a rating of None is written "None")
Raises(d) ==
    \/ IsNone(Get(Get(d, "technical_indicators", EmptyDict), "rsi", Num(50, 1)))
    \/ Get(d, "analyst_rating", "") = "None"

\* line 234: (score + 1) * 50
Normalize(score) == (score + 10) * 5

\* line 235
Clamp(confidence_score) == Min(Max(confidence_score, 0), 100)

\* lines 192-202: the calls that return the neutral score before scoring
ReturnsEarly(d) ==
    \/ Falsy(d)
    \/ "error" \in DOMAIN d
    \/ Falsy(Get(d, "ai_recommendation", EmptyDict))

get_strategy_confidence_score(d) ==
    IF ReturnsEarly(d) THEN NeutralScore
    ELSE IF Raises(d) THEN NeutralScore
    ELSE Clamp(Normalize(RawScore(d)))

\* the values of the signals
RsiValues == {Num(20, 1), Num(50, 1), Num(80, 1), NaN, None}

WeeklyScores == {Num(-20, 100), Num(0, 1), Num(30, 100)}

PositiveRatios == {Num(3, 10), Num(5, 10), Num(7, 10)}

Ratings == {"Buy", "Strong Buy", "Sell", "Hold", "N/A", "None"}

Insights == { [strategy |-> s] : s \in {"Bullish", "Bearish", "Neutral"} }

\* lines 158-170: the dict generate_trading_strategy returns on success
\* (the timestamp, the price and the lists left out)
StrategyResult(rsi, weekly_score, positive_ratio, rating, ai_insights) ==
    [market_data |-> [technical_indicators |-> [rsi |-> rsi],
                      weekly_sentiment |-> [weekly_score |-> weekly_score,
                                            positive_ratio |-> positive_ratio],
                      analyst_rating |-> rating],
     ai_recommendation |-> ai_insights]

\* the dicts generate_trading_strategy returns: lines 51-54, 62-65, 74-77,
\* 174-177 and 181-184 on failure.  Line 165 takes the rating from the
\* vendor's page, a string
GeneratedPool ==
    { StrategyResult(rsi, ws, pr, rating, ai) :
        rsi \in RsiValues \ {None}, ws \in WeeklyScores, pr \in PositiveRatios,
        rating \in Ratings \ {"None"}, ai \in Insights \cup {EmptyDict} }
    \cup { [error |-> "No stock data available"] }

\* the signals of a result of generate_trading_strategy, in the place where
\* get_strategy_confidence_score looks for them
SignalsOf(analysis) ==
    [technical_indicators |-> analysis.market_data.technical_indicators,
     weekly_sentiment |-> analysis.market_data.weekly_sentiment,
     analyst_rating |-> analysis.market_data.analyst_rating,
     ai_recommendation |-> analysis.ai_recommendation]

\* the arguments of a direct call: dicts with the keys the function reads,
\* with some of them missing, an empty dict, None and a dict with 'error'
DirectPool ==
    { SignalsOf(StrategyResult(rsi, ws, pr, rating, ai)) :
        rsi \in RsiValues, ws \in WeeklyScores, pr \in PositiveRatios,
        rating \in Ratings, ai \in Insights \cup {EmptyDict} }
    \cup { [technical_indicators |-> [rsi |-> rsi], ai_recommendation |-> ai] :
             rsi \in RsiValues, ai \in Insights }
    \cup { [analyst_rating |-> rating, ai_recommendation |-> ai] :
             rating \in Ratings, ai \in Insights }
    \cup { [technical_indicators |-> [rsi |-> Num(80, 1)]] }
    \cup { EmptyDict, None,
           [error |-> "No stock data available",
            ai_recommendation |-> [strategy |-> "Bullish"]] }

\* either the page is about to call generate_trading_strategy (its result
\* is drawn here), or the function is about to be called directly
InitConfidence ==
    /\ \/ /\ result \in GeneratedPool
          /\ market_data = None
          /\ pc = "page"
       \/ /\ result = None
          /\ market_data \in DirectPool
          /\ pc = "score"
    /\ confidence = None
    /\ page = None
    /\ stock = None
    /\ now = 0
    /\ verdict = None
    /\ pending = <<>>
    /\ strategies = <<>>
    /\ dropped = <<>>
    /\ payoffs = <<>>
    /\ df = None
    /\ factors = None
    /\ news = None
    /\ sentiment = None
    /\ prediction = None

\* pages/ai_strategy.py lines 20-26: an error is shown, any other result is
\* handed whole to get_strategy_confidence_score
PageAnalysis ==
    /\ pc = "page"
    /\ IF "error" \in DOMAIN result
       THEN /\ page' = [shown |-> "error"]
            /\ market_data' = market_data
            /\ pc' = "shown"
       ELSE /\ market_data' = result
            /\ page' = page
            /\ pc' = "score"
    /\ UNCHANGED <<stock, now, verdict, pending, strategies, dropped, result,
                   payoffs, df, factors, news, sentiment, prediction,
                   confidence>>

\* lines 186-239
ScoreConfidence ==
    /\ pc = "score"
    /\ confidence' = get_strategy_confidence_score(market_data)
    /\ pc' = "scored"
    /\ UNCHANGED <<stock, now, verdict, pending, strategies, dropped, result,
                   page, payoffs, df, factors, news, sentiment, prediction,
                   market_data>>

\* pages/ai_strategy.py lines 36-39
ShowConfidence ==
    /\ pc = "scored"
    /\ ~IsNone(result)
    /\ page' = [shown |-> "confidence", confidence_score |-> confidence]
    /\ pc' = "shown"
    /\ UNCHANGED <<stock, now, verdict, pending, strategies, dropped, result,
                   payoffs, df, factors, news, sentiment, prediction,
                   market_data, confidence>>

NextConfidence == PageAnalysis \/ ScoreConfidence \/ ShowConfidence

SpecConfidence == InitConfidence /\ [][NextConfidence]_vars

\* C27: the confidence score the AI page shows for a successful result of
\* generate_trading_strategy changes with the signals of that result: it is
\* the weighted alignment of its RSI, its weekly sentiment (weight 0.4) and
\* its analyst rating with the recommendation.
C27_ShownScoreFollowsSignals ==
    (pc = "shown" /\ "confidence_score" \in DOMAIN page) =>
        page.confidence_score = get_strategy_confidence_score(SignalsOf(result))

\* C28: get_strategy_confidence_score returns a number in [0, 100]; it is
\* exactly 50 when market_data is empty, has 'error', has no
\* ai_recommendation, or when the computation raises; otherwise the raw
\* weighted score lies in [-1, +1], so that the clamp leaves the normalised
\* value as it is.
C28_ScoreInRange ==
    pc = "scored" =>
        /\ confidence \in 0..100
        /\ (ReturnsEarly(market_data) \/ Raises(market_data)) =>
               confidence = NeutralScore
        /\ ~(ReturnsEarly(market_data) \/ Raises(market_data)) =>
               /\ RawScore(market_data) \in -10..10
               /\ confidence = Normalize(RawScore(market_data))

\* a call scored at the top of the range: every signal agrees with a
\* Bullish recommendation
C28_Witness ==
    /\ pc = "scored"
    /\ ~ReturnsEarly(market_data)
    /\ ~Raises(market_data)
    /\ RawScore(market_data) = 10
    /\ confidence = 100

------------------------------------------------------------------------------
(* The 'error' key of the results of analyze_options_strategy *)

\* C29: in every result of analyze_options_strategy 'error' is absent if
\* and only if 'strategies' is non-empty: a result with 'error' carries no
\* strategy, and a result without 'error' carries at least one validated
\* strategy together with current_price and volatility.
C29_ErrorIffNoStrategy ==
    pc = "done" =>
        /\ "error" \notin DOMAIN result <=> Returned # <<>>
        /\ "error" \notin DOMAIN result =>
              /\ {"current_price", "volatility"} \subseteq DOMAIN result
              /\ \A s \in ReturnedSet :
                    validate_strike_prices(s, result.current_price)

\* a result without 'error' for a chain of which one expiration gave a
\* strategy and another was dropped
C29_Witness ==
    /\ pc = "done"
    /\ "error" \notin DOMAIN result
    /\ Returned # <<>>
    /\ dropped # <<>>

------------------------------------------------------------------------------
(* The tie of the technical sentiment *)

\* C30: the three directional rules always produce exactly three tags, each
\* either Bullish or Bearish, so that bullish_count + bearish_count = 3,
\* the two counts are never equal and technical_sentiment is never
\* "Bearish" by a tie, for every series, those with undefined moving
\* averages included.
C30_TieUnreachable ==
    FactorsReturned =>
        /\ Len(Signals) = 3
        /\ \A i \in 1..Len(Signals) : HasBullish(Signals[i]) # HasBearish(Signals[i])
        /\ bullish_count(Signals) + bearish_count(Signals) = 3
        /\ bullish_count(Signals) # bearish_count(Signals)
        /\ factors.technical_sentiment = "Bearish" =>
              bearish_count(Signals) > bullish_count(Signals)

\* a series with a 20-day average and no 50-day average yet, summarised
\* with three tags, of which only the one of the undefined average is
\* bearish
C30_Witness ==
    /\ FactorsReturned
    /\ Len(df.close) >= SmaShort
    /\ Len(df.close) < SmaLong
    /\ IsNaN(factors.technical_indicators.sma_50)
    /\ Signals = <<"Above 20-day MA (Bullish)", "Below 50-day MA (Bearish)",
                   "MACD Above Signal (Bullish)">>

=============================================================================
